---- MODULE Spec2Model ----
(***************************************************************************)
(* Battery simulation and decision verdict of the Jhagadiya BESS           *)
(* dashboard (src/Dashboard.py).                                           *)
(*                                                                         *)
(* Energies are kWh and are kept as exact integers; a percentage is an     *)
(* exact fraction [num, den] (den = 0 is the not-a-number of an empty      *)
(* mean), so that "> 60" and "exactly 60" are decided without rounding.    *)
(* A dataframe column is kept as what the script reads of it: its length,  *)
(* the value appended last and its sum.                                    *)
(***************************************************************************)
EXTENDS Integers, Sequences, FiniteSets, TLC

\* ------------------------------------------------------------------ bounds
\* Longest filtered dataframe that is simulated.
MaxRecords == 11

\* ------------------------------------------------- the sidebar's choices
BatterySizes == {10, 15}
ChargeModes == {"PV ONLY", "GRID ONLY", "PV + GRID"}

\* Rows of the filtered dataframe (kWh per 15 minutes): a solar surplus above
\* either power limit (with metered export), a surplus below either power
\* limit, a deficit above either power limit and a deficit below it.
Row(d, s, e) == [Demand |-> d, Solar |-> s, Export |-> e]
Records ==
    {Row(500, 3000, 2500), Row(625, 1250, 0), Row(3000, 500, 0), Row(1250, 625, 0)}

\* battery_mw, in tenths of a MW (5 -> 50, 7.5 -> 75).
BatteryMwTenths(mwh) == IF mwh = 10 THEN 50 ELSE 75

\* CAP = battery_mwh * 1000
CapOf(mwh) == mwh * 1000

\* PWR = battery_mw * 1000 / 4, per 15 minutes
PwrOf(mwh) == (BatteryMwTenths(mwh) * 1000) \div 40

\* --------------------------------------------------------------- numbers
Max2(a, b) == IF a >= b THEN a ELSE b
Min2(a, b) == IF a <= b THEN a ELSE b
Min3(a, b, c) == Min2(Min2(a, b), c)

Rat(n, d) == [num |-> n, den |-> d]
NaN == Rat(0, 0)
IsNaN(q) == q.den = 0
\* q > k and q < k for an integer k; every comparison with NaN is false.
RGt(q, k) == q.den > 0 /\ q.num > k * q.den
RLt(q, k) == q.den > 0 /\ q.num < k * q.den
REq(q, k) == q.den > 0 /\ q.num = k * q.den
RAdd(a, b) ==
    IF a.den = b.den THEN Rat(a.num + b.num, a.den)
    ELSE Rat(a.num * b.den + b.num * a.den, a.den * b.den)

\* ------------------------------------------------------ the loop's body
\* excess = max(r["Solar"] - r["Demand"], 0)
Excess(row) == Max2(row.Solar - row.Demand, 0)

Deficit_DemandOnly(row) == Max2(row.Demand, 0)

\* deficit = max(r["Demand"] - r["Solar"], 0)
Deficit(row) == Max2(row.Demand - row.Solar, 0)

PvCharge_NoRoom(mode, excess, PWR, CAP, s) ==
    IF mode \in {"PV ONLY", "PV + GRID"} THEN Min2(excess, PWR) ELSE 0

\* pv after the mode branches: min(excess, PWR, CAP - soc) or 0
PvCharge(mode, excess, PWR, CAP, s) ==
    IF mode = "PV ONLY" THEN Min3(excess, PWR, CAP - s)
    ELSE IF mode = "PV + GRID" THEN Min3(excess, PWR, CAP - s)
    ELSE 0

GridCharge_NoRem(mode, p, PWR, CAP, s) ==
    IF mode = "GRID ONLY" THEN Min2(PWR, CAP - s)
    ELSE IF mode = "PV + GRID" THEN Min2(PWR, CAP - s - p)
    ELSE 0

GridCharge_StaleRoom(mode, p, PWR, CAP, s) ==
    IF mode = "GRID ONLY" THEN Min2(PWR, CAP - s)
    ELSE IF mode = "PV + GRID" THEN
        LET rem == PWR - p IN
        IF rem > 0 THEN Min2(rem, CAP - s) ELSE 0
    ELSE 0

\* grid after the mode branches, given the pv just computed
GridCharge(mode, p, PWR, CAP, s) ==
    IF mode = "GRID ONLY" THEN Min2(PWR, CAP - s)
    ELSE IF mode = "PV + GRID" THEN
        LET rem == PWR - p IN
        IF rem > 0 THEN Min2(rem, CAP - s - p) ELSE 0
    ELSE 0

Discharge_AfterCharge(deficit, PWR, s, p, g) == Min3(deficit, PWR, s + p + g)

\* discharge = min(deficit, PWR, soc), soc being the one before the step
Discharge(deficit, PWR, s, p, g) == Min3(deficit, PWR, s)

NextSoc_NoDischarge(s, p, g, d) == s + p + g

\* soc += pv + grid - discharge
NextSoc(s, p, g, d) == s + p + g - d

\* (soc / CAP) * 100
SocPct(s, CAP) == Rat(s * 100, CAP)

\* ------------------------------------------------------------- columns
EmptyInt == [n |-> 0, last |-> 0, sum |-> 0]
EmptyRat == [n |-> 0, last |-> Rat(0, 1), sum |-> Rat(0, 1)]
AppendInt(col, x) == [n |-> col.n + 1, last |-> x, sum |-> col.sum + x]
AppendRat(col, q) == [n |-> col.n + 1, last |-> q, sum |-> RAdd(col.sum, q)]

Mean_ZeroIfEmpty(col) ==
    IF col.n = 0 THEN Rat(0, 1) ELSE Rat(col.sum.num, col.sum.den * col.n)

\* Series.mean(): not-a-number for an empty column
Mean(col) == IF col.n = 0 THEN NaN ELSE Rat(col.sum.num, col.sum.den * col.n)

\* ------------------------------------------------------------- verdict
ExportThreshold == 60
SocThreshold == 65
GridThreshold == 40

ExportAvoidedPct_Unguarded(pvSum, exportSum) == Rat(pvSum * 100, exportSum)

\* pv_to_bess / total_export * 100 if total_export > 0 else 0
ExportAvoidedPct(pvSum, exportSum) ==
    IF exportSum > 0 THEN Rat(pvSum * 100, exportSum) ELSE Rat(0, 1)

\* grid_to_bess / (pv_to_bess + grid_to_bess) * 100 if the sum > 0 else 0
GridDependency(pvSum, gridSum) ==
    IF pvSum + gridSum > 0 THEN Rat(gridSum * 100, pvSum + gridSum) ELSE Rat(0, 1)

IsOptimal_NonStrict(e, a, g) ==
    /\ (RGt(e, ExportThreshold) \/ REq(e, ExportThreshold))
    /\ (RGt(a, SocThreshold) \/ REq(a, SocThreshold))
    /\ (RLt(g, GridThreshold) \/ REq(g, GridThreshold))

\* export_avoided_pct > 60 and avg_soc > 65 and grid_dependency < 40
IsOptimal(e, a, g) ==
    RGt(e, ExportThreshold) /\ RGt(a, SocThreshold) /\ RLt(g, GridThreshold)

\* ---------------------------------------------------------------- state
VARIABLES
    pc,            \* "simulate", "decide" or "done": where the script is
    battery_mwh,   \* the selectbox's value
    charge_mode,   \* the radio's value
    r,             \* the row of the current iteration
    soc,           \* state of charge, kWh
    pv, grid, discharge,                 \* this iteration's amounts
    pv_chg, grid_chg, dis, soc_pct,      \* the output columns
    total_export,                        \* df["Export"].sum() over the rows seen
    kpi,           \* pv_to_bess, grid_to_bess, bess_dis, avg_soc
    verdict,       \* what the verdict box shows
    pair           \* two runs in lockstep, used by SpecPair only

vars == <<pc, battery_mwh, charge_mode, r, soc, pv, grid, discharge,
          pv_chg, grid_chg, dis, soc_pct, total_export, kpi, verdict, pair>>

CAP == CapOf(battery_mwh)
PWR == PwrOf(battery_mwh)

NoRecord == [Demand |-> 0, Solar |-> 0, Export |-> 0]
NoKpi == [pv_to_bess |-> 0, grid_to_bess |-> 0, bess_dis |-> 0, avg_soc |-> Rat(0, 1)]
NoVerdict == [shown |-> "none", export_avoided_pct |-> Rat(0, 1),
              avg_soc |-> Rat(0, 1), grid_dependency |-> Rat(0, 1)]
NoRun == [before |-> 0, soc |-> 0, pv |-> 0, grid |-> 0, discharge |-> 0]
NoPair == [n |-> 0, r |-> NoRecord, pg |-> NoRun, go |-> NoRun]

\* The script up to the loop: widgets read, soc = 0, empty output lists.
Start ==
    /\ pc = "simulate"
    /\ battery_mwh \in BatterySizes
    /\ charge_mode \in ChargeModes
    /\ r = NoRecord
    /\ soc = 0
    /\ pv = 0 /\ grid = 0 /\ discharge = 0
    /\ pv_chg = EmptyInt /\ grid_chg = EmptyInt /\ dis = EmptyInt
    /\ soc_pct = EmptyRat
    /\ total_export = 0
    /\ kpi = NoKpi
    /\ verdict = NoVerdict

Init == Start /\ pair = NoPair

\* One iteration of "for _, r in df.iterrows()".
Iterate ==
    /\ pc = "simulate"
    /\ pv_chg.n < MaxRecords
    /\ \E row \in Records :
        LET p == PvCharge(charge_mode, Excess(row), PWR, CAP, soc)
            g == GridCharge(charge_mode, p, PWR, CAP, soc)
            d == Discharge(Deficit(row), PWR, soc, p, g)
            s == NextSoc(soc, p, g, d)
        IN  /\ r' = row
            /\ pv' = p /\ grid' = g /\ discharge' = d
            /\ soc' = s
            /\ pv_chg' = AppendInt(pv_chg, p)
            /\ grid_chg' = AppendInt(grid_chg, g)
            /\ dis' = AppendInt(dis, d)
            /\ soc_pct' = AppendRat(soc_pct, SocPct(s, CAP))
            /\ total_export' = total_export + row.Export
    /\ UNCHANGED <<pc, battery_mwh, charge_mode, kpi, verdict, pair>>

\* The dataframe is exhausted: the columns are stored and the KPIs computed.
ComputeKpi ==
    /\ pc = "simulate"
    /\ pc' = "decide"
    /\ kpi' = [pv_to_bess |-> pv_chg.sum, grid_to_bess |-> grid_chg.sum,
               bess_dis |-> dis.sum, avg_soc |-> Mean(soc_pct)]
    /\ UNCHANGED <<battery_mwh, charge_mode, r, soc, pv, grid, discharge,
                   pv_chg, grid_chg, dis, soc_pct, total_export, verdict, pair>>

\* The decision logic and the verdict box.
Decide ==
    /\ pc = "decide"
    /\ pc' = "done"
    /\ LET e == ExportAvoidedPct(kpi.pv_to_bess, total_export)
           g == GridDependency(kpi.pv_to_bess, kpi.grid_to_bess)
       IN verdict' = [shown |-> IF IsOptimal(e, kpi.avg_soc, g)
                                THEN "OPTIMAL" ELSE "NOT OPTIMAL",
                      export_avoided_pct |-> e,
                      avg_soc |-> kpi.avg_soc,
                      grid_dependency |-> g]
    /\ UNCHANGED <<battery_mwh, charge_mode, r, soc, pv, grid, discharge,
                   pv_chg, grid_chg, dis, soc_pct, total_export, kpi, pair>>

\* A widget changes: the script runs again from its first line.
Rerun ==
    /\ pc = "done"
    /\ pc' = "simulate"
    /\ battery_mwh' \in BatterySizes
    /\ charge_mode' \in ChargeModes
    /\ r' = NoRecord
    /\ soc' = 0
    /\ pv' = 0 /\ grid' = 0 /\ discharge' = 0
    /\ pv_chg' = EmptyInt /\ grid_chg' = EmptyInt /\ dis' = EmptyInt
    /\ soc_pct' = EmptyRat
    /\ total_export' = 0
    /\ kpi' = NoKpi
    /\ verdict' = NoVerdict
    /\ UNCHANGED pair

Next == Iterate \/ ComputeKpi \/ Decide \/ Rerun

Spec == Init /\ [][Next]_vars
\* ------------------------------------------ two modes over the same rows
\* One iteration of the loop in mode m from state of charge s.
RunStep(m, row, s) ==
    LET p == PvCharge(m, Excess(row), PWR, CAP, s)
        g == GridCharge(m, p, PWR, CAP, s)
        d == Discharge(Deficit(row), PWR, s, p, g)
    IN  [before |-> s, soc |-> NextSoc(s, p, g, d), pv |-> p, grid |-> g,
         discharge |-> d]

\* The same row is fed to a "PV + GRID" run and to a "GRID ONLY" run.
IteratePair ==
    /\ pair.n < MaxRecords
    /\ \E row \in Records :
        pair' = [n |-> pair.n + 1, r |-> row,
                 pg |-> RunStep("PV + GRID", row, pair.pg.soc),
                 go |-> RunStep("GRID ONLY", row, pair.go.soc)]
    /\ UNCHANGED <<pc, battery_mwh, charge_mode, r, soc, pv, grid, discharge,
                   pv_chg, grid_chg, dis, soc_pct, total_export, kpi, verdict>>

NextPair == IteratePair

SpecPair == Init /\ [][NextPair]_vars

\* =============================================================== claims
\* A step of the simulation loop has just been taken.
Stepped == pv_chg'.n = pv_chg.n + 1

\* C1: the state of charge is 0 before the first step and after every step
\* satisfies 0 <= soc <= CAP, so every emitted SOC percentage is in [0, 100].
C1_SocWithinCapacity ==
    /\ 0 <= soc /\ soc <= CAP
    /\ (pv_chg.n = 0 => soc = 0)
    /\ soc_pct.last.den > 0
    /\ 0 <= soc_pct.last.num
    /\ soc_pct.last.num <= 100 * soc_pct.last.den

\* C1 witness: the battery has been filled to exactly its capacity by a step
\* whose surplus exceeded the room left.
C1_Witness ==
    /\ pv_chg.n > 0 /\ soc = CAP
    /\ pv > 0 /\ pv < PWR /\ Excess(r) > pv
    /\ REq(soc_pct.last, 100)

\* C2: every step conserves energy, soc_after = soc_before + pvCharge +
\* gridCharge - discharge for the emitted amounts, the emitted percentage is
\* 100 * soc_after / CAP, and soc changes in no other step of a run.
C2_Conservation ==
    [][ /\ Stepped =>
            /\ soc' = soc + pv_chg'.last + grid_chg'.last - dis'.last
            /\ soc_pct'.last = Rat(100 * soc', CAP)
        /\ soc' # soc => (Stepped \/ (pc = "done" /\ pc' = "simulate" /\ soc' = 0))
      ]_vars

\* C2 witness: a step that charged from both sources after an earlier
\* discharge, the state of charge being the balance of the columns.
C2_Witness ==
    /\ pv_chg.n > 1 /\ pv_chg.last > 0 /\ grid_chg.last > 0 /\ dis.sum > 0
    /\ soc = pv_chg.sum + grid_chg.sum - dis.sum

\* C3: in every step pvCharge + gridCharge <= PWR, discharge <= PWR and the
\* three amounts are non-negative.
C3_PowerBounded ==
    /\ pv_chg.last >= 0 /\ grid_chg.last >= 0 /\ dis.last >= 0
    /\ pv_chg.last + grid_chg.last <= PWR
    /\ dis.last <= PWR

\* C3 witness: a "PV + GRID" step whose solar charge alone used the whole
\* power limit while room for more was left.
C3_Witness ==
    /\ charge_mode = "PV + GRID" /\ pv_chg.n > 0
    /\ pv_chg.last = PWR /\ grid_chg.last = 0 /\ soc < CAP

\* C4: the amounts of a step are the mode's reference formulas over
\* room = CAP - soc and excess = max(solar - demand, 0), solar before grid,
\* and discharge = min(max(demand - solar, 0), PWR, soc) with the soc the
\* step started from.
C4_ReferenceFormulas ==
    [][ Stepped =>
          LET room == CAP - soc
              excess == Max2(r'.Solar - r'.Demand, 0)
              p == pv_chg'.last
              g == grid_chg'.last
          IN  /\ charge_mode = "PV ONLY" =>
                    p = Min3(excess, PWR, room) /\ g = 0
              /\ charge_mode = "GRID ONLY" =>
                    g = Min2(PWR, room) /\ p = 0
              /\ charge_mode = "PV + GRID" =>
                    /\ p = Min3(excess, PWR, room)
                    /\ g = IF PWR - p > 0 THEN Min2(PWR - p, room - p) ELSE 0
              /\ dis'.last = Min3(Max2(r'.Demand - r'.Solar, 0), PWR, soc)
      ]_vars

\* C4 witness: a "PV + GRID" step in which the room, not the power limit,
\* capped the grid charge that followed a solar charge.
C4_Witness ==
    /\ charge_mode = "PV + GRID" /\ pv_chg.n > 0
    /\ pv_chg.last > 0 /\ grid_chg.last > 0
    /\ pv_chg.last + grid_chg.last < PWR /\ soc = CAP

\* C5: the verdict is OPTIMAL exactly when export avoided > 60, average SOC
\* > 65 and grid dependency < 40; a metric exactly on its threshold gives
\* NOT OPTIMAL.
C5_VerdictRule ==
    pc = "done" =>
        LET e == verdict.export_avoided_pct
            a == verdict.avg_soc
            g == verdict.grid_dependency
        IN  /\ verdict.shown \in {"OPTIMAL", "NOT OPTIMAL"}
            /\ verdict.shown = "OPTIMAL" <=>
                   (RGt(e, 60) /\ RGt(a, 65) /\ RLt(g, 40))
            /\ (REq(e, 60) \/ REq(a, 65) \/ REq(g, 40)) =>
                   verdict.shown = "NOT OPTIMAL"

\* C5 witness: a run whose average SOC is exactly 65 while the other two
\* metrics pass, reported NOT OPTIMAL.
C5_Witness ==
    /\ pc = "done"
    /\ REq(verdict.avg_soc, 65)
    /\ RGt(verdict.export_avoided_pct, 60) /\ RLt(verdict.grid_dependency, 40)
    /\ verdict.shown = "NOT OPTIMAL"

\* C6: the two ratios are the quotients when their denominators are
\* positive and exactly 0 otherwise, never a division by zero; grid
\* dependency lies in [0, 100] and export avoided is >= 0.
C6_ZeroDenominators ==
    pc = "done" =>
        LET e == verdict.export_avoided_pct
            g == verdict.grid_dependency
            charged == pv_chg.sum + grid_chg.sum
        IN  /\ e.den > 0 /\ g.den > 0
            /\ total_export > 0 => e = Rat(100 * pv_chg.sum, total_export)
            /\ total_export = 0 => e.num = 0
            /\ charged > 0 => g = Rat(100 * grid_chg.sum, charged)
            /\ charged = 0 => g.num = 0
            /\ 0 <= g.num /\ g.num <= 100 * g.den
            /\ 0 <= e.num

\* C6 witness: a run that charged from solar although nothing was exported.
C6_Witness ==
    /\ pc = "done" /\ total_export = 0 /\ pv_chg.sum > 0
    /\ REq(verdict.export_avoided_pct, 0)

\* C8: an empty dataframe gives empty output columns, sums of 0, both
\* ratios 0, an undefined average SOC and the verdict NOT OPTIMAL.
C8_EmptyRun ==
    (pc = "done" /\ pv_chg.n = 0) =>
        /\ grid_chg.n = 0 /\ dis.n = 0 /\ soc_pct.n = 0
        /\ kpi.pv_to_bess = 0 /\ kpi.grid_to_bess = 0 /\ kpi.bess_dis = 0
        /\ total_export = 0
        /\ REq(verdict.export_avoided_pct, 0)
        /\ REq(verdict.grid_dependency, 0)
        /\ IsNaN(verdict.avg_soc)
        /\ verdict.shown = "NOT OPTIMAL"

\* C8 witness: the verdict of a run over no rows.
C8_Witness == pc = "done" /\ pv_chg.n = 0 /\ verdict.shown = "NOT OPTIMAL"

\* C9 as stated: in no step are the total charge and the discharge both
\* positive, whatever the charging mode.
C9_ChargeExcludesDischarge ==
    ~(pv_chg.last + grid_chg.last > 0 /\ dis.last > 0)

\* C9 as amended: in no step are the solar charge and the discharge both
\* positive, and in "PV ONLY" mode neither are the total charge and the
\* discharge.
C9_SolarChargeExcludesDischarge ==
    /\ ~(pv_chg.last > 0 /\ dis.last > 0)
    /\ charge_mode = "PV ONLY" => ~(pv_chg.last + grid_chg.last > 0 /\ dis.last > 0)

\* C9 witness: a "PV + GRID" step of a deficit row that discharged and took
\* grid charge at once, with no solar charge.
C9_Witness ==
    /\ charge_mode = "PV + GRID" /\ pv_chg.n > 0
    /\ Deficit(r) > 0 /\ dis.last > 0 /\ grid_chg.last > 0 /\ pv_chg.last = 0

\* C10: over the same rows a "PV + GRID" run and a "GRID ONLY" run have in
\* every step the same total charge min(PWR, CAP - soc), the same discharge
\* and the same resulting state of charge.
C10_SameTotalCharge ==
    pair.n > 0 =>
        /\ pair.pg.before = pair.go.before
        /\ pair.pg.pv + pair.pg.grid = Min2(PWR, CAP - pair.pg.before)
        /\ pair.go.pv + pair.go.grid = Min2(PWR, CAP - pair.go.before)
        /\ pair.go.pv = 0
        /\ pair.pg.discharge = pair.go.discharge
        /\ pair.pg.soc = pair.go.soc

\* C10 witness: a step the room capped, split between solar and grid in one
\* run and all grid in the other.
C10_Witness ==
    /\ pair.n > 0
    /\ pair.pg.pv > 0 /\ pair.pg.grid > 0
    /\ pair.go.grid = pair.pg.pv + pair.pg.grid
    /\ pair.go.grid < PWR

====
